---------------------------- MODULE Spec2Model ----------------------------
(***************************************************************************)
(* A model of the MainBus of src/main.go: a bus of parallel conveyors (Go  *)
(* channels of Event), Produce sending to a random conveyor, one Consume   *)
(* goroutine per conveyor ranging over it, and Close closing every         *)
(* conveyor in index order.                                                *)
(*                                                                         *)
(* A conveyor is a Go channel: a bounded FIFO buffer, a closed flag, a     *)
(* FIFO queue of parked senders and (here, at most one) parked receiver.   *)
(* Each channel operation (send, receive, close) is one atomic step, as    *)
(* the runtime performs it under the channel's lock.                       *)
(*                                                                         *)
(* A panic ends the call that raised it (pc = "panicked").  The other      *)
(* goroutines keep running in the model, as they do under a caller that    *)
(* recovers; an unrecovered panic ends the process, which is the same      *)
(* behaviour cut short (every later step a stuttering step), so every      *)
(* safety property of the model covers it.                                 *)
(***************************************************************************)
EXTENDS Integers, Sequences, FiniteSets, TLC

\* ------------------------------------------------------------------ bounds
\* largest lane count requested from NewMainBus in a full run
MaxLines == 1
\* largest lane count requested from NewMainBus when only construction is checked
MaxNewLines == 5
\* largest lane count requested from NewMainBus by the driver
MaxMainLines == 3
\* largest buffer size requested from NewMainBus
MaxBuffer == 2
\* number of Produce calls made in a run (Event IDs 0 .. MaxItems-1)
MaxItems == 3

\* the goroutines calling Produce, and the calls made to Close
Producers == {"p1", "p2"}
Closers == {"c1", "c2"}

VARIABLES
    constructed,  \* NewMainBus has returned
    lines,        \* NewMainBus's parameter lines: the lane count asked for, then made even
    buffer,       \* the buffer size NewMainBus was called with
    Conveyors,    \* bus.Conveyors: 0-based sequence of channels
    prod,         \* each producer goroutine: its position in Produce, idx, ev
    cons,         \* each lane's Consume goroutine: its position and its ev
    closer,       \* each Close call: its position and loop index
    wg,           \* the sync.WaitGroup counter
    waiter,       \* main's wg.Wait(): not called, waiting, returned
    nextId,       \* ID of the next Event handed to Produce
    returned,     \* IDs of the Events whose Produce call returned normally
    enq,          \* per lane, the IDs sent into the channel, in send order
    delivered     \* per lane, the IDs printed by its consumer, in order

vars == <<constructed, lines, buffer, Conveyors, prod, cons, closer, wg, waiter,
          nextId, returned, enq, delivered>>

\* ------------------------------------------------------------ the channel
\* make(Conveyor, buffer): an open, empty channel
NewConveyor == [buf |-> <<>>, closed |-> FALSE, sendq |-> <<>>]

\* lines%2 != 0 => lines++
EvenLinesOdd(l) == l
EvenLines(l) == IF l % 2 # 0 THEN l + 1 ELSE l

\* the bus NewMainBus builds: one fresh channel per line
MakeConveyors(l) == [i \in 0 .. (EvenLines(l) - 1) |-> NewConveyor]

Lanes == DOMAIN Conveyors
NumLanes == Cardinality(Lanes)

IdleProd == [pc |-> "idle", idx |-> -1, ev |-> -1]
NoCons == [pc |-> "none", ev |-> -1]
IdleCloser == [pc |-> "idle", k |-> 0]

Init ==
    /\ constructed = FALSE
    /\ lines \in 0 .. MaxLines
    /\ buffer \in 0 .. MaxBuffer
    /\ Conveyors = <<>>
    /\ prod = [p \in Producers |-> IdleProd]
    /\ cons = <<>>
    /\ closer = [c \in Closers |-> IdleCloser]
    /\ wg = 0
    /\ waiter = "idle"
    /\ nextId = 0
    /\ returned = {}
    /\ enq = <<>>
    /\ delivered = <<>>

\* NewMainBus(resource, lines, buffer)
NewMainBus ==
    /\ ~constructed
    /\ constructed' = TRUE
    /\ Conveyors' = MakeConveyors(lines)
    /\ cons' = [i \in DOMAIN MakeConveyors(lines) |-> NoCons]
    /\ enq' = [i \in DOMAIN MakeConveyors(lines) |-> <<>>]
    /\ delivered' = [i \in DOMAIN MakeConveyors(lines) |-> <<>>]
    /\ lines' = EvenLines(lines)
    /\ UNCHANGED <<buffer, prod, closer, wg, waiter, nextId, returned>>

\* ---------------------------------------------------------------- Produce
\* len(bus.Conveyors) == 0 => return
NoLanesNever(n) == FALSE
NoLanes(n) == n = 0

\* rand.Intn(n): any index of [0, n)
RandIntnFirst(n) == IF n > 0 THEN {0} ELSE {}
RandIntn(n) == 0 .. (n - 1)

\* Produce(ev) up to the send: the zero-lane return, or the choice of idx
ProduceCall(p) ==
    /\ constructed
    /\ prod[p].pc = "idle"
    /\ nextId < MaxItems
    /\ nextId' = nextId + 1
    /\ IF NoLanes(NumLanes)
         THEN /\ returned' = returned \cup {nextId}
              /\ prod' = prod
         ELSE IF NumLanes <= 0
         THEN /\ prod' = [prod EXCEPT ![p] = [pc |-> "panicked", idx |-> -1, ev |-> nextId]]
              /\ returned' = returned
         ELSE /\ \E idx \in RandIntn(NumLanes) :
                    prod' = [prod EXCEPT ![p] = [pc |-> "send", idx |-> idx, ev |-> nextId]]
              /\ returned' = returned
    /\ UNCHANGED <<waiter, constructed, lines, buffer, Conveyors, cons, closer, wg, enq, delivered>>

\* a send on a closed channel panics
SendOnClosedNever(ch) == FALSE
SendOnClosed(ch) == ch.closed

\* the channel has room for one more buffered Event
HasRoomAlways(ch) == TRUE
HasRoomOneMore(ch) == Len(ch.buf) < buffer + 1
HasRoom(ch) == Len(ch.buf) < buffer

\* the buffer after a send has put ev behind the Events already in it
BufPutOverwrite(buf, ev) == IF Len(buf) > 0 THEN [buf EXCEPT ![Len(buf)] = ev] ELSE <<ev>>
BufPut(buf, ev) == Append(buf, ev)

\* the lane a Produce call sends into: the one it selected, whatever its depth
SendLaneFallback(p) ==
    IF /\ Len(Conveyors[prod[p].idx].buf) >= buffer
       /\ \E j \in Lanes : Len(Conveyors[j].buf) < buffer /\ ~Conveyors[j].closed
    THEN CHOOSE j \in Lanes : Len(Conveyors[j].buf) < buffer /\ ~Conveyors[j].closed
    ELSE prod[p].idx
SendLane(p) == prod[p].idx

\* bus.Conveyors[idx] <- ev
ChanSend(p) ==
    /\ prod[p].pc = "send"
    /\ LET i == SendLane(p)
           ch == Conveyors[i]
           ev == prod[p].ev
       IN  IF SendOnClosed(ch)
             THEN \* send on closed channel
                  /\ prod' = [prod EXCEPT ![p].pc = "panicked"]
                  /\ UNCHANGED <<Conveyors, cons, returned, enq>>
           ELSE IF cons[i].pc = "parked"
             THEN \* a receiver is waiting: hand the Event to it
                  /\ cons' = [cons EXCEPT ![i] = [pc |-> "print", ev |-> ev]]
                  /\ prod' = [prod EXCEPT ![p] = IdleProd]
                  /\ returned' = returned \cup {ev}
                  /\ enq' = [enq EXCEPT ![i] = Append(@, ev)]
                  /\ UNCHANGED Conveyors
           ELSE IF HasRoom(ch)
             THEN /\ Conveyors' = [Conveyors EXCEPT ![i].buf = BufPut(@, ev)]
                  /\ prod' = [prod EXCEPT ![p] = IdleProd]
                  /\ returned' = returned \cup {ev}
                  /\ enq' = [enq EXCEPT ![i] = Append(@, ev)]
                  /\ UNCHANGED cons
           ELSE \* full: the goroutine parks on the channel's send queue
                  /\ Conveyors' = [Conveyors EXCEPT ![i].sendq = Append(@, p)]
                  /\ prod' = [prod EXCEPT ![p].pc = "parked"]
                  /\ UNCHANGED <<cons, returned, enq>>
    /\ UNCHANGED <<waiter, constructed, lines, buffer, closer, wg, nextId, delivered>>

\* ---------------------------------------------------------------- Consume
\* wg.Add(1); go bus.Consume(i, &wg)
StartConsume(i) ==
    /\ constructed
    /\ i \in Lanes
    /\ cons[i].pc = "none"
    /\ cons' = [cons EXCEPT ![i].pc = "recv"]
    /\ wg' = wg + 1
    /\ UNCHANGED <<waiter, constructed, lines, buffer, Conveyors, prod, closer, nextId,
                   returned, enq, delivered>>

\* the Event a receive takes from the buffer
RecvPickLast(buf) == buf[Len(buf)]
RecvPick(buf) == Head(buf)

\* the buffer a receive leaves behind
RecvRestSame(buf) == buf
RecvRest(buf) == Tail(buf)

\* the range loop ends when the channel is closed and drained
RangeEndsNever(ch) == FALSE
RangeEndsOnClose(ch) == ch.closed
RangeEndsOnEmpty(ch) == Len(ch.buf) = 0
RangeEnds(ch) == ch.closed /\ Len(ch.buf) = 0

\* a sender is parked on the channel: the receive wakes the first one
HasParkedSenderNever(ch) == FALSE
HasParkedSender(ch) == Len(ch.sendq) > 0

\* for ev := range bus.Conveyors[line]: one receive
ChanRecv(i) ==
    /\ i \in Lanes
    /\ cons[i].pc = "recv"
    /\ LET ch == Conveyors[i]
       IN  IF RangeEnds(ch)
             THEN /\ cons' = [cons EXCEPT ![i].pc = "exit"]
                  /\ UNCHANGED <<Conveyors, prod, returned, enq>>
           ELSE IF Len(ch.buf) > 0
             THEN IF HasParkedSender(ch)
                    THEN \* take the head, move the first parked sender's Event in
                         LET s == Head(ch.sendq)
                         IN  /\ cons' = [cons EXCEPT ![i] = [pc |-> "print", ev |-> RecvPick(ch.buf)]]
                             /\ Conveyors' = [Conveyors EXCEPT
                                    ![i].buf = Append(RecvRest(ch.buf), prod[s].ev),
                                    ![i].sendq = Tail(ch.sendq)]
                             /\ prod' = [prod EXCEPT ![s] = IdleProd]
                             /\ returned' = returned \cup {prod[s].ev}
                             /\ enq' = [enq EXCEPT ![i] = Append(@, prod[s].ev)]
                    ELSE /\ cons' = [cons EXCEPT ![i] = [pc |-> "print", ev |-> RecvPick(ch.buf)]]
                         /\ Conveyors' = [Conveyors EXCEPT ![i].buf = RecvRest(ch.buf)]
                         /\ UNCHANGED <<prod, returned, enq>>
           ELSE IF HasParkedSender(ch)
             THEN \* unbuffered channel: take the Event from the parked sender
                  LET s == Head(ch.sendq)
                  IN  /\ cons' = [cons EXCEPT ![i] = [pc |-> "print", ev |-> prod[s].ev]]
                      /\ Conveyors' = [Conveyors EXCEPT ![i].sendq = Tail(ch.sendq)]
                      /\ prod' = [prod EXCEPT ![s] = IdleProd]
                      /\ returned' = returned \cup {prod[s].ev}
                      /\ enq' = [enq EXCEPT ![i] = Append(@, prod[s].ev)]
           ELSE \* empty and open: the goroutine parks
                  /\ cons' = [cons EXCEPT ![i].pc = "parked"]
                  /\ UNCHANGED <<Conveyors, prod, returned, enq>>
    /\ UNCHANGED <<waiter, constructed, lines, buffer, closer, wg, nextId, delivered>>

\* the loop body runs as soon as its goroutine holds an Event, whatever the
\* other lanes' consumers hold
PrintInOrder(i) ==
    /\ cons[i].pc = "print"
    /\ \A j \in Lanes : cons[j].pc = "print" => cons[i].ev <= cons[j].ev
PrintReady(i) == cons[i].pc = "print"

\* fmt.Printf(...): the loop body hands ev to the sink
ConsumePrint(i) ==
    /\ i \in Lanes
    /\ PrintReady(i)
    /\ delivered' = [delivered EXCEPT ![i] = Append(@, cons[i].ev)]
    /\ cons' = [cons EXCEPT ![i] = [pc |-> "recv", ev |-> -1]]
    /\ UNCHANGED <<waiter, constructed, lines, buffer, Conveyors, prod, closer, wg,
                   nextId, returned, enq>>

\* defer wg.Done(), run as Consume returns
ConsumeReturn(i) ==
    /\ i \in Lanes
    /\ cons[i].pc = "exit"
    /\ cons' = [cons EXCEPT ![i].pc = "done"]
    /\ wg' = wg - 1
    /\ UNCHANGED <<waiter, constructed, lines, buffer, Conveyors, prod, closer, nextId,
                   returned, enq, delivered>>

\* ------------------------------------------------------------------ Close
\* the position of a Close call after it has dealt with lane k - 1
CloseAtFirstOnly(k) == IF k >= 1 \/ k >= NumLanes THEN [pc |-> "done", k |-> k] ELSE [pc |-> "loop", k |-> k]
CloseAt(k) == IF k >= NumLanes THEN [pc |-> "done", k |-> k] ELSE [pc |-> "loop", k |-> k]

\* bus.Close() is called
CloseCall(c) ==
    /\ constructed
    /\ closer[c].pc = "idle"
    /\ closer' = [closer EXCEPT ![c] = CloseAt(0)]
    /\ UNCHANGED <<waiter, constructed, lines, buffer, Conveyors, prod, cons, wg, nextId,
                   returned, enq, delivered>>

\* the senders parked on a channel
Parked(ch) == {ch.sendq[j] : j \in 1 .. Len(ch.sendq)}

\* a close of a closed channel panics
CloseOfClosedNever(ch) == FALSE
CloseOfClosed(ch) == ch.closed

\* the channel after close(c): closed, its buffer kept, no sender parked
ClosedChanDrops(ch) == [buf |-> <<>>, closed |-> TRUE, sendq |-> <<>>]
ClosedChan(ch) == [ch EXCEPT !.closed = TRUE, !.sendq = <<>>]

\* close(c) for the lane the loop is at
CloseStep(c) ==
    /\ closer[c].pc = "loop"
    /\ LET k == closer[c].k
           ch == Conveyors[k]
       IN  IF CloseOfClosed(ch)
             THEN \* close of closed channel
                  /\ closer' = [closer EXCEPT ![c].pc = "panicked"]
                  /\ UNCHANGED <<Conveyors, prod, cons>>
             ELSE /\ Conveyors' = [Conveyors EXCEPT ![k] = ClosedChan(ch)]
                  \* every parked sender wakes up and panics
                  /\ prod' = [p \in Producers |->
                                IF p \in Parked(ch) THEN [prod[p] EXCEPT !.pc = "panicked"]
                                                    ELSE prod[p]]
                  \* a parked receiver wakes up with ok = false
                  /\ cons' = [cons EXCEPT ![k].pc = IF @ = "parked" THEN "exit" ELSE @]
                  /\ closer' = [closer EXCEPT ![c] = CloseAt(k + 1)]
    /\ UNCHANGED <<waiter, constructed, lines, buffer, wg, nextId, returned, enq, delivered>>

\* ------------------------------------------------------------------- main
\* wg.Wait() returns once the counter is zero
WaitDoneAlways(n) == TRUE
WaitDone(n) == n = 0

\* wg.Wait() is called
WaitCall ==
    /\ waiter = "idle"
    /\ waiter' = "waiting"
    /\ UNCHANGED <<constructed, lines, buffer, Conveyors, prod, cons, closer, wg,
                   nextId, returned, enq, delivered>>

\* wg.Wait() returns
WaitReturn ==
    /\ waiter = "waiting"
    /\ WaitDone(wg)
    /\ waiter' = "returned"
    /\ UNCHANGED <<constructed, lines, buffer, Conveyors, prod, cons, closer, wg,
                   nextId, returned, enq, delivered>>

\* ------------------------------------------------------------------- Next
Next ==
    \/ NewMainBus
    \/ \E p \in Producers : ProduceCall(p)
    \/ \E p \in Producers : ChanSend(p)
    \/ \E i \in Lanes : StartConsume(i)
    \/ \E i \in Lanes : ChanRecv(i)
    \/ \E i \in Lanes : ConsumePrint(i)
    \/ \E i \in Lanes : ConsumeReturn(i)
    \/ \E c \in Closers : CloseCall(c)
    \/ \E c \in Closers : CloseStep(c)

Spec == Init /\ [][Next]_vars

\* construction alone, over a wider range of requested lane counts
InitNew ==
    /\ constructed = FALSE
    /\ lines \in 0 .. MaxNewLines
    /\ buffer \in 0 .. MaxBuffer
    /\ Conveyors = <<>>
    /\ prod = [p \in Producers |-> IdleProd]
    /\ cons = <<>>
    /\ closer = [c \in Closers |-> IdleCloser]
    /\ wg = 0
    /\ waiter = "idle"
    /\ nextId = 0
    /\ returned = {}
    /\ enq = <<>>
    /\ delivered = <<>>

NextNew ==
    \/ NewMainBus
    \/ \E i \in Lanes : StartConsume(i)

SpecNew == InitNew /\ [][NextNew]_vars

\* ------------------------------------------------------- the driver, main()
\* main() on one bus: NewMainBus, one Consume goroutine per lane, the Produce
\* loop run by main itself, Close, wg.Wait()
AllStarted == \A i \in Lanes : cons[i].pc # "none"

InitMain ==
    /\ constructed = FALSE
    /\ lines \in 0 .. MaxMainLines
    /\ buffer \in 0 .. MaxBuffer
    /\ Conveyors = <<>>
    /\ prod = [p \in Producers |-> IdleProd]
    /\ cons = <<>>
    /\ closer = [c \in Closers |-> IdleCloser]
    /\ wg = 0
    /\ waiter = "idle"
    /\ nextId = 0
    /\ returned = {}
    /\ enq = <<>>
    /\ delivered = <<>>

\* for i := range bus.Conveyors { wg.Add(1); go bus.Consume(i, &wg) }
MainStart(i) ==
    /\ \A j \in Lanes : j < i => cons[j].pc # "none"
    /\ StartConsume(i)

\* the Produce loop: main calls Produce once every consumer is started
MainProduce ==
    /\ AllStarted
    /\ closer["c1"].pc = "idle"
    /\ ProduceCall("p1")

\* bus.Close(), after the Produce loop
MainClose ==
    /\ AllStarted
    /\ prod["p1"].pc = "idle"
    /\ CloseCall("c1")

\* wg.Wait(), after Close has returned
MainWait ==
    /\ closer["c1"].pc = "done"
    /\ WaitCall

MainNext ==
    \/ NewMainBus
    \/ \E i \in Lanes : MainStart(i)
    \/ MainProduce
    \/ ChanSend("p1")
    \/ \E i \in Lanes : ChanRecv(i)
    \/ \E i \in Lanes : ConsumePrint(i)
    \/ \E i \in Lanes : ConsumeReturn(i)
    \/ MainClose
    \/ CloseStep("c1")
    \/ MainWait
    \/ WaitReturn

MainSpec == InitMain /\ [][MainNext]_vars

\* every lane index main's bus can have
AllMainLanes == 0 .. (EvenLines(MaxMainLines) - 1)

\* every goroutine of the driver that can run is run
MainFairness ==
    /\ \A i \in AllMainLanes :
          /\ WF_vars(ChanRecv(i))
          /\ WF_vars(ConsumePrint(i))
          /\ WF_vars(ConsumeReturn(i))
    /\ WF_vars(ChanSend("p1"))
    /\ WF_vars(CloseStep("c1"))
    /\ WF_vars(MainWait)
    /\ WF_vars(WaitReturn)

MainLiveSpec == MainSpec /\ MainFairness

\* every lane index a run can have, and every Event ID
AllLanes == 0 .. (EvenLines(MaxLines) - 1)
Ids == 0 .. (MaxItems - 1)

\* the Go scheduler runs every runnable Consume goroutine
ConsumerFairness ==
    \A i \in AllLanes :
        /\ WF_vars(ChanRecv(i))
        /\ WF_vars(ConsumePrint(i))
        /\ WF_vars(ConsumeReturn(i))

LiveSpec == Spec /\ ConsumerFairness

\* ----------------------------------------------------------------- claims
Range(s) == {s[j] : j \in 1 .. Len(s)}
NoDuplicates(s) == \A a, b \in 1 .. Len(s) : a # b => s[a] # s[b]
IsPrefix(s, t) == Len(s) <= Len(t) /\ \A j \in 1 .. Len(s) : s[j] = t[j]
\* an ID was sent into lane i (printed by lane i's consumer) and no other
SentOnlyInto(id, i) ==
    /\ id \in Range(enq[i])
    /\ \A j \in Lanes \ {i} : id \notin Range(enq[j])
SentNowhere(id) == \A i \in Lanes : id \notin Range(enq[i])
PrintedNowhere(id) == \A i \in Lanes : id \notin Range(delivered[i])
\* every Event is printed at most once, and only by the consumer of the lane
\* it was sent into
PrintedOnceByOwnLane ==
    \A i \in Lanes :
        /\ NoDuplicates(delivered[i])
        /\ Range(delivered[i]) \subseteq Range(enq[i])
        /\ \A j \in Lanes \ {i} : Range(delivered[i]) \cap Range(delivered[j]) = {}
Started(i) == i \in Lanes /\ cons[i].pc # "none"
Terminated(i) == i \in Lanes /\ cons[i].pc \in {"exit", "done"}
Returned(i) == i \in Lanes /\ cons[i].pc = "done"
Closed(i) == i \in Lanes /\ Conveyors[i].closed
AllPrinted(i) == i \in Lanes /\ Range(enq[i]) \subseteq Range(delivered[i])

\* C1 (as stated): every Event whose Produce call returned was sent into
\* exactly one lane, and is printed at most once, only by that lane's consumer.
C1_Original ==
    /\ \A id \in returned : \E i \in Lanes : SentOnlyInto(id, i)
    /\ \A i \in Lanes : NoDuplicates(enq[i])
    /\ PrintedOnceByOwnLane

\* C1 (amended): on a bus with at least one lane, every Event whose Produce
\* call returned was sent into exactly one lane, exactly once; on any bus an
\* Event is printed at most once, and only by the consumer of the lane it was
\* sent into (on a zero-lane bus Produce returns with the Event sent nowhere).
C1_ExactlyOnce ==
    /\ NumLanes > 0 => \A id \in returned : \E i \in Lanes : SentOnlyInto(id, i)
    /\ \A i \in Lanes : NoDuplicates(enq[i]) /\ Range(enq[i]) \subseteq returned
    /\ PrintedOnceByOwnLane

\* both lanes' consumers have printed Events, and every Produce call returned
C1_Witness ==
    /\ NumLanes > 0
    /\ \A i \in Lanes : Len(delivered[i]) > 0
    /\ returned = Ids

\* C2: every Event sent into a lane before close(c) closed it is eventually
\* printed by the lane's consumer (once that consumer runs); a consumer that
\* has left its loop has printed every Event sent into its lane; and the
\* close leaves the lane's buffer as it was.
C2_DrainBeforeTerminate ==
    /\ \A i \in AllLanes :
          (Started(i) /\ Closed(i)) ~> AllPrinted(i)
    /\ [](\A i \in Lanes : Terminated(i) => Range(enq[i]) \subseteq Range(delivered[i]))
    /\ [][\A i \in Lanes : (~Conveyors[i].closed /\ Conveyors'[i].closed)
                              => Conveyors'[i].buf = Conveyors[i].buf]_vars

\* a lane closed with two Events still buffered, its consumer running
C2_Witness ==
    \E i \in Lanes :
        /\ Conveyors[i].closed
        /\ Len(Conveyors[i].buf) >= 2
        /\ Started(i)

\* C3: each lane's consumer prints the Events in the order in which their
\* sends into that lane completed.
C3_FifoPerLane == \A i \in Lanes : IsPrefix(delivered[i], enq[i])

\* a lane whose consumer has printed two Events while a third is buffered
C3_Witness ==
    \E i \in Lanes : Len(delivered[i]) >= 2 /\ Len(Conveyors[i].buf) >= 1

\* C4: once lane i is closed, a running Consume(i) eventually returns,
\* having called wg.Done.
C4_ConsumeReturns ==
    \A i \in AllLanes :
        (Started(i) /\ Closed(i)) ~> Returned(i)

\* a lane is closed while its consumer is still in its loop
C4_Witness ==
    \E i \in Lanes : Conveyors[i].closed /\ cons[i].pc \in {"recv", "print"}

\* C5: a Consume(i) that has left its loop has a closed lane holding no Event.
C5_TerminatesOnlyClosedDrained ==
    \A i \in Lanes :
        Terminated(i) => Conveyors[i].closed /\ Len(Conveyors[i].buf) = 0

\* a consumer that printed an Event has returned
C5_Witness ==
    \E i \in Lanes : cons[i].pc = "done" /\ Len(delivered[i]) >= 1

\* C6: nothing is sent into a closed lane and it stays closed; a Produce call
\* at its send on a closed lane can only panic; and the Event of a panicked
\* Produce call is in no lane, printed by no consumer, and the call did not return.
C6_ProduceAfterCloseFatal ==
    /\ [][\A i \in Lanes : Conveyors[i].closed =>
              /\ Conveyors'[i].closed
              /\ enq'[i] = enq[i]
              /\ \/ Conveyors'[i].buf = Conveyors[i].buf
                 \/ Len(Conveyors[i].buf) > 0 /\ Conveyors'[i].buf = Tail(Conveyors[i].buf)]_vars
    /\ [][\A p \in Producers :
              (prod[p].pc = "send" /\ Conveyors[prod[p].idx].closed)
                  => (prod'[p] = prod[p] \/ prod'[p] = [prod[p] EXCEPT !.pc = "panicked"])]_vars
    /\ [](\A p \in Producers : prod[p].pc = "panicked" =>
              /\ prod[p].ev \notin returned
              /\ SentNowhere(prod[p].ev)
              /\ PrintedNowhere(prod[p].ev)
              /\ \A i \in Lanes : prod[p].ev \notin Range(Conveyors[i].buf))
    /\ [][\A p \in Producers : prod[p].pc = "panicked" => prod'[p] = prod[p]]_vars

\* a Produce call panicked on a lane that was never full: it sent on a closed lane
C6_Witness ==
    \E p \in Producers :
        /\ prod[p].pc = "panicked"
        /\ cons[prod[p].idx].pc = "none"
        /\ Len(Conveyors[prod[p].idx].buf) < buffer

\* C7: no lane ever buffers more than `buffer` Events, and a Produce call
\* whose lane is full with no receiver parked on it returns only in the step
\* in which the lane's consumer receives an Event.
C7_CapacityBackPressure ==
    /\ [](\A i \in Lanes : Len(Conveyors[i].buf) <= buffer)
    /\ [][\A p \in Producers :
              (/\ prod[p].pc \in {"send", "parked"}
               /\ Len(Conveyors[prod[p].idx].buf) = buffer
               /\ cons[prod[p].idx].pc # "parked"
               /\ prod'[p].pc = "idle")
                  => (/\ cons[prod[p].idx].pc = "recv"
                      /\ cons'[prod[p].idx].pc = "print"
                      /\ prod[p].ev \in returned')]_vars

\* a producer parked on a lane with a full, non-empty buffer
C7_Witness ==
    \E p \in Producers :
        /\ prod[p].pc = "parked"
        /\ buffer > 0
        /\ Len(Conveyors[prod[p].idx].buf) = buffer

\* C8: NewMainBus called with N lines builds N lanes when N is even and
\* N + 1 when N is odd, each lane open and empty.
C8_LaneCountParity ==
    [][(~constructed /\ constructed') =>
          /\ lines % 2 = 0 => NumLanes' = lines
          /\ lines % 2 = 1 => NumLanes' = lines + 1
          /\ Lanes' = 0 .. (NumLanes' - 1)
          /\ \A i \in Lanes' :
                Conveyors'[i] = [buf |-> <<>>, closed |-> FALSE, sendq |-> <<>>]]_vars

\* the bus with the most lanes, which only the odd request MaxNewLines builds
C8_Witness == constructed /\ MaxNewLines % 2 = 1 /\ NumLanes = MaxNewLines + 1

\* C9: on a zero-lane bus every Produce call has returned at once (no
\* producer is ever inside a send or panicked), and no Event is in any lane
\* or printed.
C9_DegenerateBus ==
    (constructed /\ NumLanes = 0) =>
        /\ \A p \in Producers : prod[p] = IdleProd
        /\ returned = 0 .. (nextId - 1)
        /\ enq = <<>>
        /\ delivered = <<>>
        /\ cons = <<>>

\* every Produce call of the run was made on a zero-lane bus
C9_Witness == constructed /\ NumLanes = 0 /\ nextId = MaxItems /\ returned = Ids

\* C10 (as stated): of two Close calls on a bus, at most one completes normally.
C10_Original == Cardinality({c \in Closers : closer[c].pc = "done"}) <= 1

\* C10 (amended): on a bus with at least one lane, at most one Close call
\* completes normally, and a Close call that reaches a lane already closed
\* panics there, leaving the bus as it is (on a zero-lane bus Close closes
\* nothing and every call returns normally).
C10_DoubleCloseFatal ==
    /\ [](NumLanes > 0 => Cardinality({c \in Closers : closer[c].pc = "done"}) <= 1)
    /\ [][\A c \in Closers :
              (closer[c].pc = "loop" /\ Conveyors[closer[c].k].closed /\ closer'[c] # closer[c])
                  => (closer'[c].pc = "panicked" /\ Conveyors' = Conveyors)]_vars
    /\ [][\A c \in Closers : closer[c].pc = "panicked" => closer'[c] = closer[c]]_vars

\* one Close call returned and the other panicked
C10_Witness ==
    /\ NumLanes > 0
    /\ \E c, d \in Closers : closer[c].pc = "done" /\ closer[d].pc = "panicked"

\* the Events lane i's consumer has taken from the channel: those it printed,
\* then the one it holds for its loop body
Hand(i) == IF cons[i].pc = "print" THEN <<cons[i].ev>> ELSE <<>>
Received(i) == delivered[i] \o Hand(i)
InCall(p) == prod[p].pc \in {"send", "parked"}
\* some lane is closed by this step
ClosingStep == \E i \in Lanes : ~Conveyors[i].closed /\ Conveyors'[i].closed

PrintedOnce(id) ==
    \E i \in Lanes :
        /\ id \in Range(delivered[i])
        /\ NoDuplicates(delivered[i])
        /\ \A j \in Lanes \ {i} : id \notin Range(delivered[j])
NoPanic ==
    /\ \A p \in Producers : prod[p].pc # "panicked"
    /\ \A c \in Closers : closer[c].pc # "panicked"
CloseCalled == closer["c1"].pc # "idle"
WaitReturned == waiter = "returned"

\* C12 (as stated): when wg.Wait() has returned every Event handed to Produce
\* has been printed exactly once.
C12_Original == WaitReturned => \A id \in 0 .. (nextId - 1) : PrintedOnce(id)

\* C12 (amended): in the driver's run (one consumer per lane, Produce calls
\* finished before the single Close) nothing panics; once Close is called
\* wg.Wait() eventually returns; and when it has returned every consumer has
\* returned and, on a bus with at least one lane, every Event handed to
\* Produce has been printed exactly once (on a zero-lane bus none is printed).
C12_CooperativeShutdown ==
    /\ []NoPanic
    /\ [](WaitReturned =>
              /\ \A i \in Lanes : cons[i].pc = "done"
              /\ wg = 0
              /\ returned = 0 .. (nextId - 1)
              /\ NumLanes > 0 => \A id \in 0 .. (nextId - 1) : PrintedOnce(id)
              /\ NumLanes = 0 => \A id \in 0 .. (nextId - 1) : PrintedNowhere(id))
    /\ CloseCalled ~> WaitReturned

\* the scenario's bus (3 lines asked for, 4 lanes built): every Event of the
\* run produced, wg.Wait() returned
C12_Witness ==
    /\ WaitReturned
    /\ NumLanes = 4
    /\ nextId = MaxItems

RECURSIVE SumOver(_, _)
\* the sum of f[i] over the lanes in S
SumOver(f, S) ==
    IF S = {} THEN 0
    ELSE LET i == CHOOSE x \in S : TRUE IN f[i] + SumOver(f, S \ {i})
Buffered == SumOver([i \in Lanes |-> Len(Conveyors[i].buf)], Lanes)
\* the Events printed, and the Events a consumer holds between its receive
\* and its Printf
Delivered == SumOver([i \in Lanes |-> Len(delivered[i])], Lanes)
InHand == SumOver([i \in Lanes |-> Len(Hand(i))], Lanes)

ReceiveStep(i) == cons[i].pc = "recv" /\ cons'[i].pc = "print"

\* C14: a Produce call keeps the lane it selected until it ends; if it
\* returns, its Event was sent into that lane and no other; and a call parked
\* on its full lane stays parked, whatever room the other lanes have, except
\* in a step in which that lane's consumer receives or that lane is closed.
C14_NoAlternateLane ==
    /\ [][\A p \in Producers : InCall(p) =>
              /\ prod'[p].pc # "idle" => prod'[p].idx = prod[p].idx /\ prod'[p].ev = prod[p].ev
              /\ prod'[p].pc = "idle" =>
                    /\ enq'[prod[p].idx] = Append(enq[prod[p].idx], prod[p].ev)
                    /\ \A j \in Lanes \ {prod[p].idx} : enq'[j] = enq[j]]_vars
    /\ [][\A p \in Producers : (prod[p].pc = "parked" /\ prod'[p] # prod[p]) =>
              \/ ReceiveStep(prod[p].idx) /\ prod'[p] = IdleProd
              \/ /\ ~Conveyors[prod[p].idx].closed /\ Conveyors'[prod[p].idx].closed
                 /\ prod'[p].pc = "panicked"]_vars
    /\ [](\A p \in Producers : prod[p].pc = "parked" =>
              /\ ~Conveyors[prod[p].idx].closed
              /\ Len(Conveyors[prod[p].idx].buf) = buffer
              /\ \E j \in 1 .. Len(Conveyors[prod[p].idx].sendq) :
                    Conveyors[prod[p].idx].sendq[j] = p)

\* a producer parked on a full lane while another lane, open, is empty
C14_Witness ==
    \E p \in Producers : \E j \in Lanes :
        /\ prod[p].pc = "parked"
        /\ j # prod[p].idx
        /\ buffer > 0
        /\ Len(Conveyors[j].buf) = 0 /\ ~Conveyors[j].closed

\* C15: on a bus built with buffer 0 no lane ever buffers an Event, and a
\* Produce call returns only in a step in which the consumer of its lane
\* takes its Event (the consumer was parked in its receive, or the producer
\* was parked and the consumer receives); a call that finds no consumer
\* parked on its lane parks.
C15_ZeroCapacitySynchronous ==
    /\ [](buffer = 0 => \A i \in Lanes : Len(Conveyors[i].buf) = 0)
    /\ [][buffer = 0 => \A p \in Producers :
              /\ (InCall(p) /\ prod'[p].pc = "idle") =>
                    /\ cons[prod[p].idx].pc \in {"parked", "recv"}
                    /\ cons'[prod[p].idx] = [pc |-> "print", ev |-> prod[p].ev]
                    /\ prod[p].pc = "send" <=> cons[prod[p].idx].pc = "parked"
              /\ (/\ prod[p].pc = "send"
                  /\ ~Conveyors[prod[p].idx].closed
                  /\ cons[prod[p].idx].pc # "parked"
                  /\ prod'[p] # prod[p]) => prod'[p].pc = "parked"]_vars

\* on an unbuffered bus both ways of meeting have happened on one lane: an
\* Event was printed, and a producer is parked waiting for the consumer
C15_Witness ==
    /\ buffer = 0
    /\ \E p \in Producers :
          /\ prod[p].pc = "parked"
          /\ Len(delivered[prod[p].idx]) >= 1

\* the Go scheduler runs every runnable goroutine: the consumers and the producers
ProducerFairness == \A p \in Producers : WF_vars(ChanSend(p))

ProdLiveSpec == Spec /\ ConsumerFairness /\ ProducerFairness

AnyCloseCalled == \E c \in Closers : closer[c].pc # "idle"

\* C16: with a consumer running on every lane, a Produce call in progress
\* (about to send, or parked on a full lane) eventually returns, unless
\* Close is called.
C16_BlockedProducersResume ==
    \A p \in Producers :
        (InCall(p) /\ AllStarted) ~> (prod[p].pc = "idle" \/ AnyCloseCalled)

\* a producer is parked on a full lane whose consumer is running, all
\* consumers are started and Close has not been called
C16_Witness ==
    /\ constructed /\ AllStarted /\ ~AnyCloseCalled
    /\ \E p \in Producers : prod[p].pc = "parked"

\* Event a was sent into lane i and Event b, produced after it by the same
\* producer (the driver has one), into another lane j
RoutedApart(a, i, b, j) ==
    /\ i # j /\ a < b
    /\ a \in Range(enq[i]) /\ b \in Range(enq[j])

\* C17: when the consumers of two lanes each hold an Event, the first
\* produced and the second produced, either of them can print next: the loop
\* body of each is enabled, so both delivery orders are possible.
C17_NoCrossLaneOrdering ==
    \A i, j \in Lanes :
        (/\ cons[i].pc = "print" /\ cons[j].pc = "print"
         /\ RoutedApart(cons[i].ev, i, cons[j].ev, j))
            => (ENABLED ConsumePrint(i) /\ ENABLED ConsumePrint(j))

\* the second-produced Event has been printed while the first-produced one,
\* sent into another lane before it, is still held by that lane's consumer
C17_Witness ==
    \E i, j \in Lanes : \E a, b \in Ids :
        /\ RoutedApart(a, i, b, j)
        /\ b \in Range(delivered[j])
        /\ cons[i].pc = "print" /\ cons[i].ev = a

\* Produce can be called by p now
CanCall(p) == constructed /\ prod[p].pc = "idle" /\ nextId < MaxItems

\* C18: a Produce call in progress has selected an index of [0, n); and
\* whenever Produce can be called on a bus with lanes, the call can select
\* any lane, whatever was selected before and however full any lane is.
C18_LaneSelection ==
    /\ \A p \in Producers : InCall(p) => prod[p].idx \in 0 .. (NumLanes - 1)
    /\ \A p \in Producers : (CanCall(p) /\ NumLanes > 0) =>
          \A i \in 0 .. (NumLanes - 1) :
              ENABLED (ProduceCall(p) /\ prod'[p].idx = i)

\* every earlier Event went into one lane, which is full, the other lane is
\* empty, and a new call has selected the full lane again
C18_Witness ==
    \E p \in Producers : \E j \in Lanes :
        /\ prod[p].pc = "send"
        /\ j # prod[p].idx
        /\ buffer > 0
        /\ Len(Conveyors[prod[p].idx].buf) = buffer
        /\ Len(enq[prod[p].idx]) >= 2
        /\ enq[j] = <<>>

\* C19: the closed lanes are always the first lanes of the bus; a closed lane
\* stays closed; once a Close call has returned every lane is closed; and
\* while a Close call is inside its loop, a Produce call at its send on a
\* lane still open, with room or with its consumer parked, can complete.
C19_CloseInIndexOrder ==
    /\ [](\A i, j \in Lanes : (i < j /\ Conveyors[j].closed) => Conveyors[i].closed)
    /\ [][\A i \in Lanes : Conveyors[i].closed => Conveyors'[i].closed]_vars
    /\ [](\A c \in Closers : closer[c].pc = "done" =>
              \A i \in Lanes : Conveyors[i].closed)
    /\ [](\A c \in Closers : closer[c].pc = "loop" =>
              /\ closer[c].k \in Lanes
              /\ \A i \in Lanes : i < closer[c].k => Conveyors[i].closed)
    /\ [](\A c \in Closers : \A p \in Producers :
              (/\ closer[c].pc = "loop"
               /\ prod[p].pc = "send"
               /\ ~Conveyors[prod[p].idx].closed
               /\ \/ Len(Conveyors[prod[p].idx].buf) < buffer
                  \/ cons[prod[p].idx].pc = "parked")
                  => ENABLED (ChanSend(p) /\ prod'[p] = IdleProd))

\* Close has closed lane 0 and not yet lane 1, where a Produce call is about
\* to send into free room
C19_Witness ==
    \E c \in Closers : \E p \in Producers :
        /\ closer[c].pc = "loop" /\ closer[c].k = 1
        /\ Conveyors[0].closed /\ ~Conveyors[1].closed
        /\ prod[p].pc = "send" /\ prod[p].idx = 1
        /\ Len(Conveyors[1].buf) < buffer

=============================================================================
